---------------------------- MODULE Spec2Model ----------------------------
(***************************************************************************)
(* Model of AnomalyDetectionService                                        *)
(* (procure-erp-backend/src/common/security/services/                      *)
(*  anomaly-detection.service.ts).                                         *)
(*                                                                         *)
(* A sweep (detectAnomalies) starts three detectors.  Every detector is a  *)
(* JavaScript async function: it runs without interruption from one await  *)
(* to the next, so there is one action per await, named after the call     *)
(* whose completion it resumes from.  Times are in seconds (the source     *)
(* uses milliseconds; every window of the source is a whole number of      *)
(* seconds).                                                               *)
(***************************************************************************)
EXTENDS Integers, Sequences, FiniteSets, Bags, TLC

VARIABLES
    now,          \* Date.now(), in seconds
    orders,       \* table test_orders
    users,        \* table test_users
    auditLogs,    \* table audit_logs
    anomalyLogs,  \* table anomaly_logs: a bag of rows (the UUID key is left out)
    sweep,        \* sweep -> state of detectAnomalies
    hv,           \* sweep -> frame of detectHighValuePurchases
    af,           \* sweep -> frame of detectAuthenticationFailures
    ua,           \* sweep -> frame of detectUnusualAccess
    trace,        \* history: sweep -> detector -> what the detector has done so far
    faults        \* history: number of failures injected so far

data == <<orders, users, auditLogs>>
vars == <<now, orders, users, auditLogs, anomalyLogs, sweep, hv, af, ua, trace, faults>>

---------------------------------------------------------------------------
(* Bounds of the model *)

MaxSweeps == 2      \* sweeps the trigger may start
MaxTick == 1        \* seconds the clock may advance during a behaviour
MaxFaults == 1      \* failures (query, send, insert) injected in a behaviour
MaxAmount == 21     \* largest total_amount of a candidate order
MaxFail == 7        \* largest number of failed logins of one (ip, user) group

Sweeps == 1..MaxSweeps
Detectors == {"hv", "af", "ua"}

---------------------------------------------------------------------------
(* Time windows of the source, in seconds *)

Hour == 60 * 60
Days90 == 90 * 24 * 60 * 60
Min30 == 30 * 60
Hours2 == 2 * 60 * 60
Days30 == 30 * 24 * 60 * 60
Now0 == 100 * 24 * 60 * 60

NULL == "NULL"
Channels == {"email", "slack", "in-app"}

---------------------------------------------------------------------------
(* Helpers *)

\* every enumeration of the finite set S as a sequence without repetition
Orderings(S) ==
    {q \in [1..Cardinality(S) -> S] : \A i, j \in 1..Cardinality(S) : q[i] = q[j] => i = j}

RECURSIVE SumOf(_, _)
SumOf(f, S) ==
    IF S = {} THEN 0
    ELSE LET x == CHOOSE y \in S : TRUE IN f[x] + SumOf(f, S \ {x})

MaxOf(S) == CHOOSE m \in S : \A x \in S : x <= m

Range(q) == {q[i] : i \in 1..Len(q)}

\* String.prototype / SQL "contains": an action is a sequence of words
Contains(action, word) == \E i \in 1..Len(action) : action[i] = word

\* JavaScript truthiness of a string value: null and '' are falsy
Truthy(v) == v # NULL /\ v # ""

---------------------------------------------------------------------------
(* Queries of the detectors (Prisma / SQL), evaluated on the tables *)

\* testOrder.findMany({created_at >= since, status = 'pending'})
recentPurchases(since) ==
    {o \in orders : o.created_at >= since /\ o.status = "pending"}

\* SELECT AVG(total_amount), MAX(total_amount) ... : always one row; both
\* aggregates are NULL (<<>>) over no rows.  AVG is kept exact as <<sum, count>>.
userStats(userId, from, to) ==
    LET rows == {o \in orders : /\ o.user_id = userId
                                /\ o.created_at >= from
                                /\ o.created_at < to
                                /\ o.status = "approved"}
    IN  IF rows = {}
        THEN [avg_amount |-> <<>>, max_amount |-> <<>>]
        ELSE [avg_amount |-> <<SumOf([o \in rows |-> o.total_amount], rows), Cardinality(rows)>>,
              max_amount |-> <<MaxOf({o.total_amount : o \in rows})>>]

\* a missing average defaulting to 1 instead of 0
avgAmountOfOne(stats) ==
    IF stats.avg_amount = <<>> \/ stats.avg_amount[1] = 0 THEN <<1, 1>> ELSE stats.avg_amount

\* userStats[0]?.avg_amount || 0 : NULL and 0 both give 0 (the rational 0/1)
avgAmountOf(stats) ==
    IF stats.avg_amount = <<>> \/ stats.avg_amount[1] = 0 THEN <<0, 1>> ELSE stats.avg_amount

\* userStats[0]?.max_amount || 0
maxAmountOf(stats) ==
    IF stats.max_amount = <<>> \/ stats.max_amount[1] = 0 THEN 0 ELSE stats.max_amount[1]

\* a slip of the rule: either margin alone is taken to be enough
isHighValueEither(amount, avg, max) ==
    \/ amount * avg[2] > avg[1] * 3
    \/ amount * 2 > max * 3

\* total_amount > avgAmount * 3 && total_amount > maxAmount * 1.5
\* (avgAmount = avg[1] / avg[2]; x > m * 1.5 is 2x > 3m)
isHighValue(amount, avg, max) ==
    /\ amount * avg[2] > avg[1] * 3
    /\ amount * 2 > max * 3

\* having: { id: { _count: { gt: 5 } } }
failedLoginThreshold == 5

\* a groupBy on the IP address alone: the failures of an address are counted
\* together, whoever the user
loginGroupsByIp(since) ==
    LET rows == {e \in auditLogs : /\ Contains(e.action, "login")
                                   /\ e.response_status >= 400
                                   /\ e.timestamp >= since}
        keys == {e.ip_address : e \in rows}
    IN  {[ip_address |-> k, user_id |-> NULL,
          count |-> Cardinality({e \in rows : e.ip_address = k})] : k \in keys}

\* auditLog.groupBy({by: [ip_address, user_id], where: {action contains 'login',
\* response_status >= 400, timestamp >= since}, _count: {id}}): the groups
loginGroups(since) ==
    LET rows == {e \in auditLogs : /\ Contains(e.action, "login")
                                   /\ e.response_status >= 400
                                   /\ e.timestamp >= since}
        keys == {<<e.ip_address, e.user_id>> : e \in rows}
    IN  {[ip_address |-> k[1], user_id |-> k[2],
          count |-> Cardinality({e \in rows : <<e.ip_address, e.user_id>> = k})] : k \in keys}

\* a slip of the threshold: "5 or more", as the comment in the source has it
failedLoginsFrom5(since) ==
    {g \in loginGroups(since) : g.count >= failedLoginThreshold}

\* ... having: { id: { _count: { gt: 5 } } }
failedLogins(since) ==
    {g \in loginGroups(since) : g.count > failedLoginThreshold}

\* auditLog.findMany({timestamp >= since, user_id not null})
recentLogs(since) ==
    {e \in auditLogs : e.timestamp >= since /\ e.user_id # NULL}

\* the Map built from recentLogs: user id -> resources and IP addresses seen
\* (the timestamps list of the source is never read and is left out)
userAccessMap(logs) ==
    LET used == {e \in logs : Truthy(e.user_id)}
    IN  [u \in {e.user_id : e \in used} |->
            [resources |-> {e.resource : e \in {l \in used : l.user_id = u}},
             ipAddresses |-> {e.ip_address : e \in {l \in used : l.user_id = u}}]]

\* Map.entries() iterates in insertion order, that is by first appearance in
\* recentLogs, which is sorted by timestamp descending (ties in any order)
userOrders(logs) ==
    LET m == userAccessMap(logs)
        newest(u) == MaxOf({e.timestamp : e \in {l \in logs : l.user_id = u}})
    IN  {q \in Orderings(DOMAIN m) :
            \A i, j \in 1..Len(q) : i < j => newest(q[i]) >= newest(q[j])}

\* auditLog.findMany({user_id = userId, timestamp >= from, timestamp < to})
pastUserActivity(userId, from, to) ==
    {e \in auditLogs : e.user_id = userId /\ e.timestamp >= from /\ e.timestamp < to}

\* if (log.resource) commonResources.add(log.resource)
commonResources(past) ==
    {e.resource : e \in {l \in past : Truthy(l.resource)}}

\* if (log.ip_address) ipFrequency[log.ip_address] = (ipFrequency[...] || 0) + 1
ipFrequency(past) ==
    [ip \in {e.ip_address : e \in {l \in past : Truthy(l.ip_address)}} |->
        Cardinality({e \in past : e.ip_address = ip})]

\* Array.from(recentAccess.resources).filter(r => !commonResources.has(r))
unusualResources(recentAccess, common) ==
    {r \in recentAccess.resources : r \notin common}

\* Array.from(recentAccess.ipAddresses).filter(ip => !ipFrequency[ip])
unusualIps(recentAccess, freq) ==
    {ip \in recentAccess.ipAddresses : ip \notin DOMAIN freq \/ freq[ip] = 0}

\* unusualResources.length > 0 || unusualIps.length > 0
isUnusual(res, ips) == res # {} \/ ips # {}

\* testUser.findUnique({id: userId}): the record in a sequence, <<>> when absent
findUser(userId) ==
    IF \E u \in users : u.id = userId
    THEN <<CHOOSE u \in users : u.id = userId>>
    ELSE <<>>

\* user?.username
usernameOf(user) == IF user = <<>> THEN NULL ELSE user[1].username

---------------------------------------------------------------------------
(* Shared methods *)

\* getAdministrators without the is_active condition of its query
getAdministratorsAnyStatus(role, ok) ==
    [ids |-> IF ok
             THEN {u.id : u \in {x \in users : x.role \in {"admin", role, "super_admin"}}}
             ELSE {},
     threw |-> FALSE]

\* getAdministrators without its try/catch: the failed query propagates
getAdministratorsNoCatch(role, ok) ==
    [ids |-> IF ok
             THEN {u.id : u \in {x \in users : x.role \in {"admin", role, "super_admin"}
                                               /\ x.is_active}}
             ELSE {},
     threw |-> ~ok]

\* getAdministrators(role): the ids of the active users with one of the three
\* roles; when the query fails (ok = FALSE) the error is caught and the list
\* is empty; nothing is thrown
getAdministrators(role, ok) ==
    [ids |-> IF ok
             THEN {u.id : u \in {x \in users : x.role \in {"admin", role, "super_admin"}
                                               /\ x.is_active}}
             ELSE {},
     threw |-> FALSE]

\* a row inserted as resolved, with nobody and no time of resolution
anomalyRowResolved(type, severity, userId, details, detectedAt) ==
    [type |-> type, severity |-> severity, user_id |-> userId, details |-> details,
     detected_at |-> detectedAt, is_resolved |-> TRUE,
     resolved_at |-> NULL, resolved_by |-> NULL, notes |-> NULL]

\* the row anomalyLogRecord.create inserts; resolved_at, resolved_by and notes
\* take the defaults of the table (NULL)
anomalyRow(type, severity, userId, details, detectedAt) ==
    [type |-> type, severity |-> severity, user_id |-> userId, details |-> details,
     detected_at |-> detectedAt, is_resolved |-> FALSE,
     resolved_at |-> NULL, resolved_by |-> NULL, notes |-> NULL]

\* a recorder that skips a finding the table already holds
logAnomalyDedup(type, severity, userId, details, detectedAt, ok) ==
    [table |-> IF ok /\ ~BagIn(anomalyRow(type, severity, userId, details, detectedAt), anomalyLogs)
               THEN anomalyLogs (+) SetToBag({anomalyRow(type, severity, userId, details, detectedAt)})
               ELSE anomalyLogs,
     threw |-> FALSE]

\* logAnomaly without its try/catch: the failed insert propagates
logAnomalyNoCatch(type, severity, userId, details, detectedAt, ok) ==
    [table |-> IF ok
               THEN anomalyLogs (+) SetToBag({anomalyRow(type, severity, userId, details, detectedAt)})
               ELSE anomalyLogs,
     threw |-> ~ok]

\* a recorder that keeps one row per (type, user): a later finding replaces
\* the earlier one
logAnomalyUpsert(type, severity, userId, details, detectedAt, ok) ==
    [table |-> IF ok
               THEN LET kept == {r \in BagToSet(anomalyLogs) : r.type # type \/ r.user_id # userId}
                    IN  [r \in kept |-> anomalyLogs[r]]
                           (+) SetToBag({anomalyRow(type, severity, userId, details, detectedAt)})
               ELSE anomalyLogs,
     threw |-> FALSE]

\* a recorder that clears the table before it inserts
logAnomalyReplace(type, severity, userId, details, detectedAt, ok) ==
    [table |-> IF ok
               THEN SetToBag({anomalyRow(type, severity, userId, details, detectedAt)})
               ELSE anomalyLogs,
     threw |-> FALSE]

\* logAnomaly(type, severity, userId, details), called at time detectedAt: the
\* table after the call; a failed insert (ok = FALSE) is caught and leaves the
\* table as it was; nothing is thrown
logAnomaly(type, severity, userId, details, detectedAt, ok) ==
    [table |-> IF ok
               THEN anomalyLogs (+) SetToBag({anomalyRow(type, severity, userId, details, detectedAt)})
               ELSE anomalyLogs,
     threw |-> FALSE]

\* NotificationService.sendNotification(channels, recipients, payload): every
\* channel is tried, the channels in `failed` fail, the failures are logged and
\* swallowed; the call returns the channels that delivered and never rejects
sendNotification(channels, recipients, failed) ==
    [delivered |-> channels \ failed, rejected |-> FALSE]

\* the outcomes of a send the model draws from
SendOutcomes == {{}, {"slack"}, Channels}

---------------------------------------------------------------------------
(* Frames of the async functions and the history they leave *)

\* pc: the call the function is awaiting; at: Date.now() when that call was
\* made; queue: the candidates not yet finished, the current one first
hvFrame0 == [pc |-> "idle", at |-> 0, queue |-> <<>>, avg |-> <<0, 1>>, admins |-> {}]

Log(s, d, ev) == [trace EXCEPT ![s][d] = Append(@, ev)]

\* an injected failure: allowed while the budget lasts
Inject(failing) ==
    /\ failing => faults < MaxFaults
    /\ faults' = IF failing THEN faults + 1 ELSE faults

\* the clock advances between any two steps
Tick ==
    /\ now < Now0 + MaxTick
    /\ now' = now + 1
    /\ UNCHANGED <<data, anomalyLogs, sweep, hv, af, ua, trace, faults>>

---------------------------------------------------------------------------
(* detectHighValuePurchases *)

\* the call, up to the first await: findMany is issued with since = now - 1h
hvInvoke(s) == [hvFrame0 EXCEPT !.pc = "findMany", !.at = now]

\* catch (error) { logger.error(...) }: the detector ends, nothing propagates
\* a detector without its try/catch: the error rejects the detector's promise
hvCatchRethrow(f) == [hvFrame0 EXCEPT !.pc = "rejected"]

hvCatch(f) == [hvFrame0 EXCEPT !.pc = "done"]

\* the head of the for loop over q: issue the baseline query of the next
\* purchase, or leave the loop and return
hvLoop(f, q) ==
    IF q = <<>>
    THEN [hvFrame0 EXCEPT !.pc = "done"]
    ELSE [f EXCEPT !.pc = "queryRaw", !.at = now, !.queue = q, !.avg = <<0, 1>>, !.admins = {}]

\* findMany completes: the candidates, in the order the store returns them
hvFindMany(s) ==
    /\ hv[s].pc = "findMany"
    /\ \/ /\ Inject(TRUE)
          /\ hv' = [hv EXCEPT ![s] = hvCatch(@)]
          /\ trace' = Log(s, "hv", [op |-> "error", key |-> "findMany"])
       \/ /\ Inject(FALSE)
          /\ \E q \in Orderings(recentPurchases(hv[s].at - Hour)) :
                hv' = [hv EXCEPT ![s] = hvLoop(@, q)]
          /\ trace' = Log(s, "hv", [op |-> "scan", at |-> hv[s].at])
    /\ UNCHANGED <<now, data, anomalyLogs, sweep, af, ua>>

\* $queryRaw completes: the rule is evaluated; a flagged purchase calls
\* getAdministrators, any other moves on to the next purchase
hvQueryRaw(s) ==
    /\ hv[s].pc = "queryRaw"
    /\ LET f == hv[s]
           p == Head(f.queue)
           stats == userStats(p.user_id, f.at - Days90, f.at - Hour)
           avg == avgAmountOf(stats)
           max == maxAmountOf(stats)
           flagged == isHighValue(p.total_amount, avg, max)
       IN  \/ /\ Inject(TRUE)
              /\ hv' = [hv EXCEPT ![s] = hvCatch(@)]
              /\ trace' = Log(s, "hv", [op |-> "error", key |-> "queryRaw"])
           \/ /\ Inject(FALSE)
              /\ hv' = [hv EXCEPT ![s] =
                        IF flagged
                        THEN [f EXCEPT !.pc = "getAdministrators", !.avg = avg]
                        ELSE hvLoop(f, Tail(f.queue))]
              /\ trace' = Log(s, "hv", [op |-> "eval", key |-> p.id, at |-> f.at,
                                        flagged |-> flagged])
    /\ UNCHANGED <<now, data, anomalyLogs, sweep, af, ua>>

\* getAdministrators('purchase_admin') returns: sendNotification is called
hvGetAdministrators(s) ==
    /\ hv[s].pc = "getAdministrators"
    /\ \E ok \in BOOLEAN :
          LET f == hv[s]
              p == Head(f.queue)
              r == getAdministrators("purchase_admin", ok)
          IN  /\ Inject(~ok)
              /\ hv' = [hv EXCEPT ![s] =
                        IF r.threw THEN hvCatch(f)
                        ELSE [f EXCEPT !.pc = "sendNotification", !.admins = r.ids]]
              /\ trace' = Log(s, "hv", [op |-> "admins", key |-> p.id, ok |-> ok,
                                        ids |-> r.ids, threw |-> r.threw])
    /\ UNCHANGED <<now, data, anomalyLogs, sweep, af, ua>>

\* after await sendNotification(...): a rejection goes to the catch block,
\* otherwise logAnomaly is called (detected_at = new Date())
hvAfterSend(f, r) ==
    IF r.rejected
    THEN hvCatch(f)
    ELSE [f EXCEPT !.pc = "logAnomaly", !.at = now]

\* sendNotification settles
hvSendNotification(s) ==
    /\ hv[s].pc = "sendNotification"
    /\ \E failed \in SendOutcomes :
          LET f == hv[s]
              p == Head(f.queue)
              r == sendNotification(Channels, f.admins, failed)
          IN  /\ Inject(failed # {})
              /\ hv' = [hv EXCEPT ![s] = hvAfterSend(f, r)]
              /\ trace' = Log(s, "hv", [op |-> "send", key |-> p.id, to |-> f.admins,
                                        failed |-> failed, rejected |-> r.rejected])
    /\ UNCHANGED <<now, data, anomalyLogs, sweep, af, ua>>

\* logAnomaly returns (the insert done, or its failure caught): next candidate
hvLogAnomaly(s) ==
    /\ hv[s].pc = "logAnomaly"
    /\ \E ok \in BOOLEAN :
          LET f == hv[s]
              p == Head(f.queue)
              r == logAnomaly("high_purchase", "high", p.user_id,
                              [orderId |-> p.id, amount |-> p.total_amount, avgAmount |-> f.avg], f.at, ok)
          IN  /\ Inject(~ok)
              /\ anomalyLogs' = r.table
              /\ hv' = [hv EXCEPT ![s] =
                        IF r.threw THEN hvCatch(f) ELSE hvLoop(f, Tail(f.queue))]
              /\ trace' = Log(s, "hv", [op |-> "log", key |-> p.id, ok |-> ok,
                                        threw |-> r.threw])
    /\ UNCHANGED <<now, data, sweep, af, ua>>

\* a direct call of the detector, outside a sweep
detectHighValuePurchases(s) ==
    /\ sweep[s] = "idle"
    /\ hv[s].pc = "idle"
    /\ hv' = [hv EXCEPT ![s] = hvInvoke(s)]
    /\ UNCHANGED <<now, data, anomalyLogs, sweep, af, ua, trace, faults>>

---------------------------------------------------------------------------
(* detectAuthenticationFailures *)

afFrame0 == [pc |-> "idle", at |-> 0, queue |-> <<>>, admins |-> {}]

afKey(item) == <<item.ip_address, item.user_id>>

\* the call, up to the first await: groupBy is issued with since = now - 30min
afInvoke(s) == [afFrame0 EXCEPT !.pc = "groupBy", !.at = now]

\* a detector without its try/catch: the error rejects the detector's promise
afCatchRethrow(f) == [afFrame0 EXCEPT !.pc = "rejected"]

\* catch (error) { logger.error(...) }: the detector ends, nothing propagates
afCatch(f) == [afFrame0 EXCEPT !.pc = "done"]

\* the head of the for loop over q: warn about the next group and call
\* getAdministrators, or leave the loop and return
afLoop(f, q) ==
    IF q = <<>>
    THEN [afFrame0 EXCEPT !.pc = "done"]
    ELSE [f EXCEPT !.pc = "getAdministrators", !.queue = q, !.admins = {}]

\* what the loop head adds to the history
afWarn(q) ==
    IF q = <<>> THEN <<>>
    ELSE <<[op |-> "flag", key |-> afKey(Head(q)), count |-> Head(q).count]>>

\* groupBy completes: the groups over the threshold, in the store's order
afGroupBy(s) ==
    /\ af[s].pc = "groupBy"
    /\ \/ /\ Inject(TRUE)
          /\ af' = [af EXCEPT ![s] = afCatch(@)]
          /\ trace' = Log(s, "af", [op |-> "error", key |-> "groupBy"])
       \/ /\ Inject(FALSE)
          /\ \E q \in Orderings(failedLogins(af[s].at - Min30)) :
                /\ af' = [af EXCEPT ![s] = afLoop(@, q)]
                /\ trace' = [trace EXCEPT ![s]["af"] =
                                (@ \o <<[op |-> "scan", at |-> af[s].at]>>) \o afWarn(q)]
    /\ UNCHANGED <<now, data, anomalyLogs, sweep, hv, ua>>

\* getAdministrators('security_admin') returns: sendNotification is called
afGetAdministrators(s) ==
    /\ af[s].pc = "getAdministrators"
    /\ \E ok \in BOOLEAN :
          LET f == af[s]
              item == Head(f.queue)
              r == getAdministrators("security_admin", ok)
          IN  /\ Inject(~ok)
              /\ af' = [af EXCEPT ![s] =
                        IF r.threw THEN afCatch(f)
                        ELSE [f EXCEPT !.pc = "sendNotification", !.admins = r.ids]]
              /\ trace' = Log(s, "af", [op |-> "admins", key |-> afKey(item), ok |-> ok,
                                        ids |-> r.ids, threw |-> r.threw])
    /\ UNCHANGED <<now, data, anomalyLogs, sweep, hv, ua>>

\* a detector that takes an undelivered channel for an error
afAfterSendStrict(f, r) ==
    IF r.rejected \/ r.delivered # Channels
    THEN afCatch(f)
    ELSE [f EXCEPT !.pc = "logAnomaly", !.at = now]

\* logAnomaly called without await: the loop goes on to the next group while
\* the insert is still to come
afAfterSendNoAwait(f, r) ==
    IF r.rejected
    THEN afCatch(f)
    ELSE afLoop(f, Tail(f.queue))

\* after await sendNotification(...): a rejection goes to the catch block,
\* otherwise logAnomaly is called (detected_at = new Date())
afAfterSend(f, r) ==
    IF r.rejected
    THEN afCatch(f)
    ELSE [f EXCEPT !.pc = "logAnomaly", !.at = now]

\* sendNotification settles
afSendNotification(s) ==
    /\ af[s].pc = "sendNotification"
    /\ \E failed \in SendOutcomes :
          LET f == af[s]
              item == Head(f.queue)
              r == sendNotification(Channels, f.admins, failed)
          IN  /\ Inject(failed # {})
              /\ af' = [af EXCEPT ![s] = afAfterSend(f, r)]
              /\ trace' = Log(s, "af", [op |-> "send", key |-> afKey(item), to |-> f.admins,
                                        failed |-> failed, rejected |-> r.rejected])
    /\ UNCHANGED <<now, data, anomalyLogs, sweep, hv, ua>>

\* logAnomaly returns (the insert done, or its failure caught): next candidate
afLogAnomaly(s) ==
    /\ af[s].pc = "logAnomaly"
    /\ \E ok \in BOOLEAN :
          LET f == af[s]
              item == Head(f.queue)
              r == logAnomaly("auth_failure", "high", item.user_id,
                              [ipAddress |-> item.ip_address, count |-> item.count], f.at, ok)
          IN  /\ Inject(~ok)
              /\ anomalyLogs' = r.table
              /\ af' = [af EXCEPT ![s] =
                        IF r.threw THEN afCatch(f) ELSE afLoop(f, Tail(f.queue))]
              /\ trace' = [trace EXCEPT ![s]["af"] =
                            (@ \o <<[op |-> "log", key |-> afKey(item), ok |-> ok, threw |-> r.threw]>>)
                               \o (IF r.threw THEN <<>> ELSE afWarn(Tail(f.queue)))]
    /\ UNCHANGED <<now, data, sweep, hv, ua>>

\* a direct call of the detector, outside a sweep
detectAuthenticationFailures(s) ==
    /\ sweep[s] = "idle"
    /\ af[s].pc = "idle"
    /\ af' = [af EXCEPT ![s] = afInvoke(s)]
    /\ UNCHANGED <<now, data, anomalyLogs, sweep, hv, ua, trace, faults>>

---------------------------------------------------------------------------
(* detectUnusualAccess *)

\* map: userAccessMap; res, ips, user: unusualResources, unusualIps and the
\* user record of the current user
uaFrame0 == [pc |-> "idle", at |-> 0, queue |-> <<>>, map |-> <<>>,
             res |-> {}, ips |-> {}, user |-> <<>>, admins |-> {}]

\* the call, up to the first await: findMany is issued with since = now - 2h
uaInvoke(s) == [uaFrame0 EXCEPT !.pc = "findMany", !.at = now]

\* the head of the for loop over the map entries q: issue the history query of
\* the next user, or leave the loop and return
uaLoop(f, q) ==
    IF q = <<>>
    THEN [uaFrame0 EXCEPT !.pc = "done"]
    ELSE [f EXCEPT !.pc = "findPast", !.at = now, !.queue = q,
                   !.res = {}, !.ips = {}, !.user = <<>>, !.admins = {}]

\* a try/catch around the body of the loop instead of around the loop: the
\* error of one user is logged and the next user is taken up
uaCatchSkip(f) == uaLoop(f, IF f.queue = <<>> THEN <<>> ELSE Tail(f.queue))

\* catch (error) { logger.error(...) }: the detector ends, nothing propagates
uaCatch(f) == [uaFrame0 EXCEPT !.pc = "done"]

\* findMany completes: the map is built and its entries are walked
uaFindMany(s) ==
    /\ ua[s].pc = "findMany"
    /\ \/ /\ Inject(TRUE)
          /\ ua' = [ua EXCEPT ![s] = uaCatch(@)]
          /\ trace' = Log(s, "ua", [op |-> "error", key |-> "findMany"])
       \/ /\ Inject(FALSE)
          /\ LET logs == recentLogs(ua[s].at - Hours2)
             IN  \E q \in userOrders(logs) :
                    ua' = [ua EXCEPT ![s] = uaLoop([@ EXCEPT !.map = userAccessMap(logs)], q)]
          /\ trace' = Log(s, "ua", [op |-> "scan", at |-> ua[s].at])
    /\ UNCHANGED <<now, data, anomalyLogs, sweep, hv, af>>

\* the history query completes: the rule is evaluated; a flagged user is looked
\* up, any other moves on to the next user
uaFindPast(s) ==
    /\ ua[s].pc = "findPast"
    /\ LET f == ua[s]
           userId == Head(f.queue)
           past == pastUserActivity(userId, f.at - Days30, f.at - Hours2)
           res == unusualResources(f.map[userId], commonResources(past))
           ips == unusualIps(f.map[userId], ipFrequency(past))
       IN  \/ /\ Inject(TRUE)
              /\ ua' = [ua EXCEPT ![s] = uaCatch(@)]
              /\ trace' = Log(s, "ua", [op |-> "error", key |-> "findPast"])
           \/ /\ Inject(FALSE)
              /\ ua' = [ua EXCEPT ![s] =
                        IF isUnusual(res, ips)
                        THEN [f EXCEPT !.pc = "findUnique", !.res = res, !.ips = ips]
                        ELSE uaLoop(f, Tail(f.queue))]
              /\ trace' = Log(s, "ua", [op |-> "eval", key |-> userId, at |-> f.at,
                                        flagged |-> isUnusual(res, ips),
                                        res |-> res, ips |-> ips])
    /\ UNCHANGED <<now, data, anomalyLogs, sweep, hv, af>>

\* user.username in the place of user?.username: an absent record raises a
\* TypeError, which ends the detector in its catch block
uaAfterFindUniqueStrict(f, user) ==
    IF user = <<>>
    THEN uaCatch(f)
    ELSE [f EXCEPT !.pc = "getAdministrators", !.user = user]

\* after await findUnique(...): the record, present or not, is kept (it is
\* read with user?.username only) and getAdministrators is called
uaAfterFindUnique(f, user) ==
    [f EXCEPT !.pc = "getAdministrators", !.user = user]

\* findUnique completes (the record may be absent): getAdministrators is called
uaFindUnique(s) ==
    /\ ua[s].pc = "findUnique"
    /\ \/ /\ Inject(TRUE)
          /\ ua' = [ua EXCEPT ![s] = uaCatch(@)]
          /\ trace' = Log(s, "ua", [op |-> "error", key |-> "findUnique"])
       \/ /\ Inject(FALSE)
          /\ ua' = [ua EXCEPT ![s] = uaAfterFindUnique(@, findUser(Head(ua[s].queue)))]
          /\ trace' = Log(s, "ua", [op |-> "user", key |-> Head(ua[s].queue),
                                    found |-> findUser(Head(ua[s].queue)) # <<>>])
    /\ UNCHANGED <<now, data, anomalyLogs, sweep, hv, af>>

\* getAdministrators('security_admin') returns: sendNotification is called
uaGetAdministrators(s) ==
    /\ ua[s].pc = "getAdministrators"
    /\ \E ok \in BOOLEAN :
          LET f == ua[s]
              userId == Head(f.queue)
              r == getAdministrators("security_admin", ok)
          IN  /\ Inject(~ok)
              /\ ua' = [ua EXCEPT ![s] =
                        IF r.threw THEN uaCatch(f)
                        ELSE [f EXCEPT !.pc = "sendNotification", !.admins = r.ids]]
              /\ trace' = Log(s, "ua", [op |-> "admins", key |-> userId, ok |-> ok,
                                        ids |-> r.ids, threw |-> r.threw])
    /\ UNCHANGED <<now, data, anomalyLogs, sweep, hv, af>>

\* after await sendNotification(...): a rejection goes to the catch block,
\* otherwise logAnomaly is called (detected_at = new Date())
uaAfterSend(f, r) ==
    IF r.rejected
    THEN uaCatch(f)
    ELSE [f EXCEPT !.pc = "logAnomaly", !.at = now]

\* sendNotification settles
uaSendNotification(s) ==
    /\ ua[s].pc = "sendNotification"
    /\ \E failed \in SendOutcomes :
          LET f == ua[s]
              userId == Head(f.queue)
              r == sendNotification(Channels, f.admins, failed)
          IN  /\ Inject(failed # {})
              /\ ua' = [ua EXCEPT ![s] = uaAfterSend(f, r)]
              /\ trace' = Log(s, "ua", [op |-> "send", key |-> userId, to |-> f.admins,
                                        failed |-> failed, rejected |-> r.rejected])
    /\ UNCHANGED <<now, data, anomalyLogs, sweep, hv, af>>

\* logAnomaly returns (the insert done, or its failure caught): next candidate
uaLogAnomaly(s) ==
    /\ ua[s].pc = "logAnomaly"
    /\ \E ok \in BOOLEAN :
          LET f == ua[s]
              userId == Head(f.queue)
              r == logAnomaly("unusual_access", "medium", userId,
                              [username |-> usernameOf(f.user), unusualResources |-> f.res, unusualIps |-> f.ips], f.at, ok)
          IN  /\ Inject(~ok)
              /\ anomalyLogs' = r.table
              /\ ua' = [ua EXCEPT ![s] =
                        IF r.threw THEN uaCatch(f) ELSE uaLoop(f, Tail(f.queue))]
              /\ trace' = Log(s, "ua", [op |-> "log", key |-> userId, ok |-> ok,
                                        threw |-> r.threw])
    /\ UNCHANGED <<now, data, sweep, hv, af>>

\* a direct call of the detector, outside a sweep
detectUnusualAccess(s) ==
    /\ sweep[s] = "idle"
    /\ ua[s].pc = "idle"
    /\ ua' = [ua EXCEPT ![s] = uaInvoke(s)]
    /\ UNCHANGED <<now, data, anomalyLogs, sweep, hv, af, trace, faults>>

---------------------------------------------------------------------------
(* detectAnomalies *)

\* the cron trigger calls detectAnomalies: the three detectors are called in
\* turn, each running up to its first await, and Promise.all awaits them
detectAnomalies(s) ==
    /\ sweep[s] = "idle"
    /\ hv[s].pc = "idle" /\ af[s].pc = "idle" /\ ua[s].pc = "idle"
    /\ \A t \in Sweeps : t < s => sweep[t] # "idle"
    /\ sweep' = [sweep EXCEPT ![s] = "running"]
    /\ hv' = [hv EXCEPT ![s] = hvInvoke(s)]
    /\ af' = [af EXCEPT ![s] = afInvoke(s)]
    /\ ua' = [ua EXCEPT ![s] = uaInvoke(s)]
    /\ UNCHANGED <<now, data, anomalyLogs, trace, faults>>

\* detectAnomalies called again only after the previous call has returned
\* (await detectAnomalies(); await detectAnomalies())
detectAnomaliesInTurn(s) ==
    /\ \A t \in Sweeps : t < s => sweep[t] = "done"
    /\ detectAnomalies(s)

\* Promise.race in the place of Promise.all: settled by the first detector
promiseRace(s) ==
    LET pcs == {hv[s].pc, af[s].pc, ua[s].pc}
    IN  /\ sweep[s] = "running"
        /\ "rejected" \in pcs \/ "done" \in pcs
        /\ sweep' = [sweep EXCEPT ![s] = IF "rejected" \in pcs THEN "rejected" ELSE "done"]
        /\ UNCHANGED <<now, data, anomalyLogs, hv, af, ua, trace, faults>>

\* Promise.all settles: it rejects as soon as one detector's promise is
\* rejected, and resolves once all three are fulfilled; on resolving
\* detectAnomalies logs completion and returns
promiseAll(s) ==
    LET pcs == {hv[s].pc, af[s].pc, ua[s].pc}
    IN  /\ sweep[s] = "running"
        /\ "rejected" \in pcs \/ pcs = {"done"}
        /\ sweep' = [sweep EXCEPT ![s] = IF "rejected" \in pcs THEN "rejected" ELSE "done"]
        /\ UNCHANGED <<now, data, anomalyLogs, hv, af, ua, trace, faults>>

---------------------------------------------------------------------------
(* Tables the behaviours start from *)

Ord(id, userId, status, amount, createdAt) ==
    [id |-> id, user_id |-> userId, status |-> status,
     total_amount |-> amount, created_at |-> createdAt]

User(id, username, role, active) ==
    [id |-> id, username |-> username, role |-> role, is_active |-> active]

Event(id, userId, action, resource, ip, status, ts) ==
    [id |-> id, user_id |-> userId, action |-> action, resource |-> resource,
     ip_address |-> ip, response_status |-> status, timestamp |-> ts]

Yesterday == Now0 - 24 * 60 * 60

UsersFull ==
    {User("u1", "alice", "user", TRUE), User("u2", "bob", "user", TRUE),
     User("a1", "pat", "purchase_admin", TRUE), User("a2", "sam", "security_admin", TRUE),
     User("a3", "ann", "admin", FALSE), User("a4", "root", "super_admin", TRUE),
     User("a5", "eve", "admin", TRUE)}

\* no active user holds an administrator role
UsersNoAdmin ==
    {User("u1", "alice", "user", TRUE), User("u2", "bob", "user", TRUE),
     User("a3", "ann", "admin", FALSE)}

UserTables == {UsersFull, UsersNoAdmin}

\* the history of purchaser u1
HistTables ==
    {{},
     {Ord("h1", "u1", "approved", 4, Yesterday)},
     {Ord("h1", "u1", "approved", 4, Yesterday), Ord("h2", "u1", "approved", 6, Yesterday),
      Ord("h3", "u1", "approved", 2, Yesterday)},
     {Ord("h1", "u1", "approved", 1, Yesterday), Ord("h2", "u1", "approved", 2, Yesterday)},
     {Ord("h1", "u1", "approved", 1, Yesterday), Ord("h2", "u1", "approved", 1, Yesterday),
      Ord("h3", "u1", "approved", 1, Yesterday), Ord("h4", "u1", "approved", 13, Yesterday)},
     {Ord("h1", "u1", "approved", 2, Yesterday),
      Ord("h2", "u1", "approved", 12, Now0 - Days90)},
     {Ord("h1", "u1", "approved", 2, Yesterday),
      Ord("h2", "u1", "approved", 12, Now0 - Hour)},
     {Ord("h1", "u1", "approved", 2, Yesterday), Ord("h2", "u1", "rejected", 12, Yesterday)},
     {Ord("h1", "u1", "approved", 2, Yesterday), Ord("h2", "u2", "approved", 12, Yesterday)}}

\* the order under test, and optionally a pending order of a purchaser
\* without history
CandTables ==
    {{Ord("c1", "u1", st, amt, at)} \cup more :
        st \in {"pending", "approved"},
        amt \in 0..MaxAmount,
        at \in {Now0 - 10, Now0 - Hour, Now0 - Hour - 1},
        more \in {{}, {Ord("c2", "u2", "pending", 7, Now0 - 20)}}}

\* every amount for a pending candidate, the largest one for an approved one
HVOrderTables ==
    {h \cup c : h \in HistTables,
                c \in {x \in CandTables :
                          \A o \in x : o.status = "approved" => o.total_amount = MaxAmount}}

\* n failed logins of one (ip, user) group, with ids base + 1 .. base + n
Logins(base, ip, userId, n, ts) ==
    {Event(base + k, userId, <<"auth", "login">>, "auth", ip,
           IF k % 2 = 0 THEN 400 ELSE 401, ts) : k \in 1..n}

\* events of group (ip1, u1) that the query must not count, and one on the
\* edge of the window
LoginNoise ==
    {Event(901, "u1", <<"auth", "login">>, "auth", "ip1", 200, Now0 - 10),
     Event(902, "u1", <<"auth", "login">>, "auth", "ip1", 399, Now0 - 10),
     Event(903, "u1", <<"orders", "create">>, "orders", "ip1", 500, Now0 - 10),
     Event(904, "u1", <<"auth", "login">>, "auth", "ip1", 401, Now0 - Min30 - 1),
     Event(905, "u1", <<"auth", "login">>, "auth", "ip1", 401, Now0 - Min30)}

AFAuditTables ==
    {((Logins(100, "ip1", "u1", nA, Now0 - 10) \cup Logins(200, "ip1", NULL, nB, Now0 - 10))
        \cup Logins(300, "ip1", "u2", nC, Now0 - 10)) \cup noise :
        nA \in 0..MaxFail, nB \in {0, 3, 6}, nC \in {0, 3, 6}, noise \in {{}, LoginNoise}}

\* accesses of user u1: (resource, ip) pairs, recent ones and past ones
AccessPairs == {"", "orders"} \X {"ip1", "ip2"}

PairNo(p) ==
    (IF p[1] = "" THEN 0 ELSE 2) + (IF p[2] = "ip1" THEN 0 ELSE 1)

Accesses(base, ps, ts) ==
    {Event(base + PairNo(p), "u1", <<"GET">>, p[1], p[2], 200, ts) : p \in ps}

UAAuditTables ==
    {((Accesses(400, r, Now0 - 60) \cup Accesses(500, h, Yesterday)) \cup edge) \cup other :
        r \in {x \in SUBSET AccessPairs : Cardinality(x) \in 1..2},
        h \in {x \in SUBSET AccessPairs : Cardinality(x) <= 2},
        edge \in {{}, {Event(600, "u1", <<"GET">>, "reports", "ip2", 200, Now0 - Hours2)}},
        other \in {{Event(800, NULL, <<"GET">>, "orders", "ip1", 200, Now0 - 60)},
                   {Event(800, NULL, <<"GET">>, "orders", "ip1", 200, Now0 - 60),
                    Event(700, "u9", <<"GET">>, "orders", "ip1", 200, Now0 - 60)}}}

\* tables for whole sweeps: one candidate per detector, over its rule or not
SweepOrderTables ==
    {{Ord("h1", "u1", "approved", 4, Yesterday), Ord("c1", "u1", "pending", amt, Now0 - 10)} :
        amt \in {12, 13}}

SweepAuditTables ==
    {Logins(100, "ip1", "u1", n, Now0 - 10)
        \cup {Event(500, "u1", <<"GET">>, res, "ip1", 200, Yesterday)} :
        <<n, res>> \in {<<6, "orders">>, <<5, "auth">>}}

---------------------------------------------------------------------------
(* Specifications *)

InitWith(o, u, a) ==
    /\ now = Now0
    /\ orders = o
    /\ users = u
    /\ auditLogs = a
    /\ anomalyLogs = EmptyBag
    /\ sweep = [s \in Sweeps |-> "idle"]
    /\ hv = [s \in Sweeps |-> hvFrame0]
    /\ af = [s \in Sweeps |-> afFrame0]
    /\ ua = [s \in Sweeps |-> uaFrame0]
    /\ trace = [s \in Sweeps |-> [d \in Detectors |-> <<>>]]
    /\ faults = 0

\* the service as deployed: the trigger starts sweeps, which may overlap
\* (the clock is held: the queries of these sweeps see one instant; its advance
\* between the queries of a detector is explored in the specifications below)
Init == \E o \in SweepOrderTables, a \in SweepAuditTables : InitWith(o, UsersFull, a)

Next ==
    \E s \in Sweeps :
          \/ detectAnomalies(s)
          \/ promiseAll(s)
          \/ hvFindMany(s)
          \/ hvQueryRaw(s)
          \/ hvGetAdministrators(s)
          \/ hvSendNotification(s)
          \/ hvLogAnomaly(s)
          \/ afGroupBy(s)
          \/ afGetAdministrators(s)
          \/ afSendNotification(s)
          \/ afLogAnomaly(s)
          \/ uaFindMany(s)
          \/ uaFindPast(s)
          \/ uaFindUnique(s)
          \/ uaGetAdministrators(s)
          \/ uaSendNotification(s)
          \/ uaLogAnomaly(s)

Spec == Init /\ [][Next]_vars

\* sweeps run one after the other over the same tables
NextSeq ==
    \E s \in Sweeps :
       \/ detectAnomaliesInTurn(s)
       \/ promiseAll(s)
       \/ hvFindMany(s)
       \/ hvQueryRaw(s)
       \/ hvGetAdministrators(s)
       \/ hvSendNotification(s)
       \/ hvLogAnomaly(s)
       \/ afGroupBy(s)
       \/ afGetAdministrators(s)
       \/ afSendNotification(s)
       \/ afLogAnomaly(s)
       \/ uaFindMany(s)
       \/ uaFindPast(s)
       \/ uaFindUnique(s)
       \/ uaGetAdministrators(s)
       \/ uaSendNotification(s)
       \/ uaLogAnomaly(s)

SpecSeq == Init /\ [][NextSeq]_vars

\* every awaited call settles: a query, a lookup, a send or an insert that a
\* detector is waiting for completes or fails, and a settled Promise.all
\* resumes detectAnomalies; the trigger itself is under no obligation
Fairness ==
    \A s \in Sweeps :
       /\ WF_vars(promiseAll(s))
       /\ WF_vars(hvFindMany(s)) /\ WF_vars(hvQueryRaw(s))
       /\ WF_vars(hvGetAdministrators(s)) /\ WF_vars(hvSendNotification(s))
       /\ WF_vars(hvLogAnomaly(s))
       /\ WF_vars(afGroupBy(s)) /\ WF_vars(afGetAdministrators(s))
       /\ WF_vars(afSendNotification(s)) /\ WF_vars(afLogAnomaly(s))
       /\ WF_vars(uaFindMany(s)) /\ WF_vars(uaFindPast(s)) /\ WF_vars(uaFindUnique(s))
       /\ WF_vars(uaGetAdministrators(s)) /\ WF_vars(uaSendNotification(s))
       /\ WF_vars(uaLogAnomaly(s))

\* one call of detectAnomalies
NextOnce ==
    \/ detectAnomalies(1)
    \/ promiseAll(1)
    \/ hvFindMany(1)
    \/ hvQueryRaw(1)
    \/ hvGetAdministrators(1)
    \/ hvSendNotification(1)
    \/ hvLogAnomaly(1)
    \/ afGroupBy(1)
    \/ afGetAdministrators(1)
    \/ afSendNotification(1)
    \/ afLogAnomaly(1)
    \/ uaFindMany(1)
    \/ uaFindPast(1)
    \/ uaFindUnique(1)
    \/ uaGetAdministrators(1)
    \/ uaSendNotification(1)
    \/ uaLogAnomaly(1)

SpecLive == Init /\ [][NextOnce]_vars /\ Fairness

\* the high-value detector alone, called once, over many order tables
InitHV == \E o \in HVOrderTables : InitWith(o, UsersFull, {})

NextHV ==
    \/ Tick
    \/ detectHighValuePurchases(1)
    \/ hvFindMany(1)
    \/ hvQueryRaw(1)
    \/ hvGetAdministrators(1)
    \/ hvSendNotification(1)
    \/ hvLogAnomaly(1)

SpecHV == InitHV /\ [][NextHV]_vars

\* the authentication-failure detector alone, over many audit tables
InitAF == \E a \in AFAuditTables, u \in UserTables : InitWith({}, u, a)

NextAF ==
    \/ Tick
    \/ detectAuthenticationFailures(1)
    \/ afGroupBy(1)
    \/ afGetAdministrators(1)
    \/ afSendNotification(1)
    \/ afLogAnomaly(1)

SpecAF == InitAF /\ [][NextAF]_vars

\* the unusual-access detector alone, over many audit tables
InitUA == \E a \in UAAuditTables : InitWith({}, UsersFull, a)

NextUA ==
    \/ Tick
    \/ detectUnusualAccess(1)
    \/ uaFindMany(1)
    \/ uaFindPast(1)
    \/ uaFindUnique(1)
    \/ uaGetAdministrators(1)
    \/ uaSendNotification(1)
    \/ uaLogAnomaly(1)

SpecUA == InitUA /\ [][NextUA]_vars

---------------------------------------------------------------------------
(* Reading the history *)

Events(s, d, op) == {i \in 1..Len(trace[s][d]) : trace[s][d][i].op = op}

\* the detector ran into its catch block
Stopped(s, d) == Events(s, d, "error") # {}

\* Date.now() of the detector's candidate scan
ScanAt(s, d) == trace[s][d][CHOOSE i \in Events(s, d, "scan") : TRUE].at

OrderOf(id) == CHOOSE o \in orders : o.id = id

Pc(s, d) == CASE d = "hv" -> hv[s].pc [] d = "af" -> af[s].pc [] OTHER -> ua[s].pc

\* the candidates the detector has flagged, notified about and recorded
Flagged(s, d) ==
    IF d = "af"
    THEN {trace[s][d][i].key : i \in Events(s, d, "flag")}
    ELSE {trace[s][d][i].key : i \in {j \in Events(s, d, "eval") : trace[s][d][j].flagged}}

Sent(s, d) == {trace[s][d][i].key : i \in Events(s, d, "send")}

Logged(s, d) == {trace[s][d][i].key : i \in {j \in Events(s, d, "log") : trace[s][d][j].ok}}

\* the failures the detector has met
FaultsOf(s, d) ==
    LET t == trace[s][d]
    IN  {i \in 1..Len(t) : \/ t[i].op = "error"
                           \/ t[i].op = "admins" /\ ~t[i].ok
                           \/ t[i].op = "send" /\ t[i].failed # {}
                           \/ t[i].op = "log" /\ ~t[i].ok}

Clean(s, d) == FaultsOf(s, d) = {}

\* rows of anomaly_logs of a type that satisfy a condition on the row
Rows(type, P(_)) ==
    LET dom == {r \in BagToSet(anomalyLogs) : r.type = type /\ P(r)}
    IN  SumOf([r \in dom |-> CopiesIn(r, anomalyLogs)], dom)

---------------------------------------------------------------------------
(* C1: the high-value rule *)

\* the purchaser's approved orders in [at - 90d, at - 1h)
Baseline(o, at) ==
    {h \in orders : /\ h.user_id = o.user_id /\ h.status = "approved"
                    /\ h.created_at >= at - Days90 /\ h.created_at < at - Hour}

\* amount > 3 * avg and amount > 1.5 * max, avg = max = 0 without a baseline
OverBaseline(o, at) ==
    LET b == Baseline(o, at)
        n == Cardinality(b)
        sum == SumOf([h \in b |-> h.total_amount], b)
    IN  IF b = {} THEN o.total_amount > 0
        ELSE /\ n * o.total_amount > 3 * sum
             /\ \A h \in b : 2 * o.total_amount > 3 * h.total_amount

HighPurchaseRows(id) == Rows("high_purchase", LAMBDA r : r.details.orderId = id)

---------------------------------------------------------------------------
(* The rules as the claims state them, and the findings in the table *)

AllKeys == {<<e.ip_address, e.user_id>> : e \in auditLogs}

\* failed logins of group k in the 30 minutes before at
FailedCount(k, at) ==
    Cardinality({e \in auditLogs : /\ e.ip_address = k[1] /\ e.user_id = k[2]
                                   /\ Contains(e.action, "login")
                                   /\ e.response_status >= 400
                                   /\ e.timestamp >= at - Min30})

\* users with an authenticated event in the 2 hours before at
RecentUsers(at) ==
    {e.user_id : e \in {x \in auditLogs : x.user_id # NULL /\ x.timestamp >= at - Hours2}}

\* some recent resource or IP of the user (scan at scanAt) is not among the
\* user's events of the 30 days ending 2 hours before histAt
UnusualAccess(u, scanAt, histAt) ==
    LET rec == {e \in auditLogs : e.user_id = u /\ e.timestamp >= scanAt - Hours2}
        hist == {e \in auditLogs : /\ e.user_id = u
                                   /\ e.timestamp >= histAt - Days30
                                   /\ e.timestamp < histAt - Hours2}
    IN  \/ {e.resource : e \in rec} \ {e.resource : e \in hist} # {}
        \/ {e.ip_address : e \in rec} \ {e.ip_address : e \in hist} # {}

AuthFailureRows(k) ==
    Rows("auth_failure", LAMBDA r : r.details.ipAddress = k[1] /\ r.user_id = k[2])

UnusualAccessRows(u) == Rows("unusual_access", LAMBDA r : r.user_id = u)

RowsOf(d, key) ==
    CASE d = "hv" -> HighPurchaseRows(key)
      [] d = "af" -> AuthFailureRows(key)
      [] OTHER -> UnusualAccessRows(key)

\* everything a detector could raise a finding about
Candidates(d) ==
    CASE d = "hv" -> {o.id : o \in orders}
      [] d = "af" -> AllKeys
      [] OTHER -> {e.user_id : e \in {x \in auditLogs : x.user_id # NULL}}

\* the candidates the rule of detector d selects when all its queries are made
\* at time at
ExpectedAt(d, at) ==
    CASE d = "hv" -> {o.id : o \in {x \in orders : /\ x.status = "pending"
                                                     /\ x.created_at >= at - Hour
                                                     /\ OverBaseline(x, at)}}
      [] d = "af" -> {k \in AllKeys : FailedCount(k, at) > 5}
      [] OTHER -> {u \in RecentUsers(at) : UnusualAccess(u, at, at)}

Expected(s, d) == ExpectedAt(d, ScanAt(s, d))

---------------------------------------------------------------------------
(* C2: the authentication-failure rule *)

---------------------------------------------------------------------------
(* C3: the unusual-access rule *)

\* C3: a user evaluated by the unusual-access detector is flagged if and only
\* if some recent resource is not among the historical resources or some
\* recent IP is not among the historical IPs (history: the 30 days ending 2
\* hours before the history query); this is the claim as stated, which the
\* code does not meet.
C3_UnusualAccessRule ==
    LET t == trace[1]["ua"]
    IN  \A i \in Events(1, "ua", "eval") :
           t[i].flagged <=> UnusualAccess(t[i].key, ScanAt(1, "ua"), t[i].at)

---------------------------------------------------------------------------
(* C4: one failing detector *)

\* C4: no error of a detector reaches the trigger (no sweep is rejected), a
\* completed sweep has all three detectors finished, and when one detector
\* has failed every other detector that has finished without a failure of
\* its own has recorded exactly the findings its rule selects, all of
\* which are in the table.
C4_PartialFailureIsolation ==
    \A s \in Sweeps :
       /\ sweep[s] # "rejected"
       /\ sweep[s] = "done" => \A d \in Detectors : Pc(s, d) = "done"
       /\ \A d \in Detectors : Stopped(s, d) =>
             \A e \in Detectors \ {d} :
                (Pc(s, e) = "done" /\ Clean(s, e)) =>
                    /\ Logged(s, e) = Expected(s, e)
                    /\ \A k \in Expected(s, e) : RowsOf(e, k) >= 1

\* a completed sweep in which one detector failed and both others recorded
C4_Witness ==
    /\ sweep[1] = "done"
    /\ Stopped(1, "hv")
    /\ Logged(1, "af") # {} /\ Logged(1, "ua") # {}

---------------------------------------------------------------------------
(* C5: recording and notifying *)

\* C5: when a detector calls the notifier for a finding (the step that has
\* resolved the recipients), the recorder has already been called for that
\* finding and has returned; this is the claim as stated, which the code does
\* not meet: it notifies first and records afterwards.
C5_RecordedBeforeNotified ==
    \A s \in Sweeps, d \in Detectors :
       LET t == trace[s][d]
       IN  \A i \in Events(s, d, "admins") :
              \E j \in Events(s, d, "log") : j < i /\ t[j].key = t[i].key

---------------------------------------------------------------------------
(* C6: a failed send *)

\* C6: after a send in which channels failed the detector calls the recorder
\* for the same candidate, a successful insert puts the finding in the table,
\* and a detector that has finished with that failed send as its only
\* failure has notified about and recorded every candidate its rule selects.
C6_SendFailureContained ==
    \A s \in Sweeps, d \in Detectors :
       LET t == trace[s][d]
       IN  \A i \in Events(s, d, "send") : t[i].failed # {} =>
              /\ ~t[i].rejected
              /\ IF i = Len(t)
                 THEN Pc(s, d) = "logAnomaly"
                 ELSE /\ t[i + 1].op = "log" /\ t[i + 1].key = t[i].key
                      /\ t[i + 1].ok => RowsOf(d, t[i].key) >= 1
              /\ (Pc(s, d) = "done" /\ FaultsOf(s, d) = {i}) =>
                    /\ Sent(s, d) = Expected(s, d)
                    /\ Logged(s, d) = Expected(s, d)

\* a send failed on every channel for the first of two candidates, and both
\* candidates are recorded
C6_Witness ==
    \E i \in Events(1, "af", "send") :
       /\ trace[1]["af"][i].failed = Channels
       /\ af[1].pc = "done"
       /\ trace[1]["af"][i].key \in Logged(1, "af")
       /\ \E j \in Events(1, "af", "send") : j > i

---------------------------------------------------------------------------
(* C7: no administrators *)

RoleOf(d) == IF d = "hv" THEN "purchase_admin" ELSE "security_admin"

NoAdministrator(role) ==
    ~\E u \in users : u.is_active /\ u.role \in {"admin", role, "super_admin"}

\* C7: when the administrator lookup fails or no user matches,
\* getAdministrators returns an empty list and throws nothing, the detector
\* goes on to send to that empty list, and a detector that has finished with
\* no other failure has recorded the finding of that candidate.
C7_AdminLookupEmpty ==
    \A s \in Sweeps, d \in Detectors :
       LET t == trace[s][d]
       IN  \A i \in Events(s, d, "admins") : (~t[i].ok \/ NoAdministrator(RoleOf(d))) =>
              /\ t[i].ids = {} /\ ~t[i].threw
              /\ IF i = Len(t)
                 THEN Pc(s, d) = "sendNotification"
                 ELSE t[i + 1].op = "send" /\ t[i + 1].key = t[i].key /\ t[i + 1].to = {}
              /\ (Pc(s, d) = "done" /\ FaultsOf(s, d) \subseteq {i}) =>
                    /\ t[i].key \in Logged(s, d)
                    /\ RowsOf(d, t[i].key) >= 1

\* the lookup failed and the finding is in the table
C7_Witness ==
    \E i \in Events(1, "af", "admins") :
       /\ ~trace[1]["af"][i].ok
       /\ trace[1]["af"][i].key \in Logged(1, "af")
       /\ AuthFailureRows(trace[1]["af"][i].key) = 1

---------------------------------------------------------------------------
(* C8: two sweeps *)

\* C8: when sweeps have run to completion without any failure over the same
\* tables, every candidate a rule selects has one finding per completed sweep
\* (two after the second sweep) and every other candidate has none.
C8_NoIdempotence ==
    LET done == {s \in Sweeps : sweep[s] = "done"}
    IN  (faults = 0 /\ done # {} /\ \A s \in Sweeps : sweep[s] \in {"idle", "done"}) =>
           \A d \in Detectors : \A k \in Candidates(d) :
              RowsOf(d, k) = IF k \in ExpectedAt(d, now) THEN Cardinality(done) ELSE 0

\* two sweeps are complete and a flagged order has two findings
C8_Witness ==
    /\ faults = 0
    /\ Cardinality({s \in Sweeps : sweep[s] = "done"}) = 2
    /\ \A s \in Sweeps : sweep[s] \in {"idle", "done"}
    /\ \E o \in orders : HighPurchaseRows(o.id) = 2

---------------------------------------------------------------------------
(* C9: a failed insert *)

\* C9: when the insert of a finding fails, logAnomaly throws nothing, the
\* alert for that candidate has been sent, the table holds exactly the
\* findings whose insert succeeded (none for this candidate), and a detector
\* that has finished with that failed insert as its only failure has taken up
\* every candidate its rule selects and recorded all the others.
C9_RecordingFailureContained ==
    \A s \in Sweeps, d \in Detectors :
       LET t == trace[s][d]
       IN  \A i \in Events(s, d, "log") : ~t[i].ok =>
              /\ ~t[i].threw
              /\ Pc(s, d) # "rejected"
              /\ \E j \in Events(s, d, "send") : j < i /\ t[j].key = t[i].key
              /\ RowsOf(d, t[i].key) = Cardinality({r \in Sweeps : t[i].key \in Logged(r, d)})
              /\ (Pc(s, d) = "done" /\ FaultsOf(s, d) = {i}) =>
                    /\ Flagged(s, d) = Expected(s, d)
                    /\ Logged(s, d) = Expected(s, d) \ {t[i].key}

\* the alert of a candidate was sent, its insert failed, it has no finding, and
\* the detector went on to record another candidate
C9_Witness ==
    \E i \in Events(1, "af", "log") :
       /\ ~trace[1]["af"][i].ok
       /\ trace[1]["af"][i].key \in Sent(1, "af")
       /\ AuthFailureRows(trace[1]["af"][i].key) = 0
       /\ \E j \in Events(1, "af", "log") : j > i /\ trace[1]["af"][j].ok

---------------------------------------------------------------------------
(* C10: a failed query *)

\* C10: a failed data-store query of a detector (the candidate scan, a
\* baseline query, a history query or the user lookup) is the last thing the
\* detector does in the sweep: nothing is sent or recorded after it, the
\* detector has returned without rejecting, and the findings it recorded
\* before are still in the table.
C10_QueryFailureStops ==
    \A s \in Sweeps, d \in Detectors :
       LET t == trace[s][d]
       IN  \A i \in Events(s, d, "error") :
              /\ i = Len(t)
              /\ Pc(s, d) = "done"
              /\ \A j \in Events(s, d, "log") : t[j].ok => RowsOf(d, t[j].key) >= 1

\* the history query of the second user failed after the first user's finding
\* was recorded
C10_Witness ==
    \E i \in Events(1, "ua", "error") :
       /\ trace[1]["ua"][i].key = "findPast"
       /\ Logged(1, "ua") # {}
       /\ \A u \in Logged(1, "ua") : UnusualAccessRows(u) = 1

---------------------------------------------------------------------------
(* C11: a purchaser without a baseline *)

---------------------------------------------------------------------------
(* C12: overlapping sweeps *)

\* the sweeps whose detector d has inserted a finding for the candidate
LoggedBy(d, k) == {s \in Sweeps : k \in Logged(s, d)}

\* C12: a sweep can always be started while earlier ones are still running;
\* whatever the interleaving, the table holds for every candidate one finding
\* per sweep that has inserted one (none lost, overwritten or added), every
\* row is as the recorder wrote it, the map of an unusual-access run is the
\* one built from that run's own scan, and a detector that has finished
\* without a failure has recorded exactly what its rule selects.
C12_OverlappingSweeps ==
    /\ \A s \in Sweeps :
          (sweep[s] = "idle" /\ \A t \in Sweeps : t < s => sweep[t] # "idle")
             => ENABLED detectAnomalies(s)
    /\ \A d \in Detectors : \A k \in Candidates(d) :
          RowsOf(d, k) = Cardinality(LoggedBy(d, k))
    /\ BagCardinality(anomalyLogs)
          = SumOf([p \in Sweeps \X Detectors |-> Cardinality(Logged(p[1], p[2]))],
                  Sweeps \X Detectors)
    /\ \A s \in Sweeps :
          /\ ua[s].pc \notin {"idle", "findMany", "done"} =>
                ua[s].map = userAccessMap(recentLogs(ScanAt(s, "ua") - Hours2))
          /\ \A d \in Detectors : (Pc(s, d) = "done" /\ Clean(s, d)) =>
                Logged(s, d) = Expected(s, d)

\* two sweeps are running at once and both have recorded a finding for the
\* same group of failed logins
C12_Witness ==
    /\ sweep[1] = "running" /\ sweep[2] = "running"
    /\ hv[1].pc # "done" /\ hv[2].pc # "done"
    /\ \E k \in AllKeys : LoggedBy("af", k) = {1, 2} /\ AuthFailureRows(k) = 2

---------------------------------------------------------------------------
(* C13: the completion of a sweep *)

\* C13: detectAnomalies can pass its Promise.all only when the three
\* detectors it started have all returned (finished, or failed into their
\* catch block), and in a completed sweep every detector has returned after
\* having got the answer of at least its first query.
C13_CompleteAfterAll ==
    \A s \in Sweeps :
       /\ ENABLED promiseAll(s) => \A d \in Detectors : Pc(s, d) = "done"
       /\ sweep[s] = "done" =>
             \A d \in Detectors :
                /\ Pc(s, d) = "done"
                /\ Stopped(s, d) \/ Events(s, d, "scan") # {}

\* a sweep is complete in which one detector failed on its first query and
\* the two others went through their candidates
C13_Witness ==
    /\ sweep[1] = "done"
    /\ Stopped(1, "ua") /\ Len(trace[1]["ua"]) = 1
    /\ Logged(1, "hv") # {} /\ Logged(1, "af") # {}

---------------------------------------------------------------------------
(* C14: the resolution fields of a finding *)

\* C14: in every row of anomaly_logs resolved_at is set exactly if the row is
\* resolved, and so is resolved_by; every row the engine has inserted is
\* unresolved with resolved_at, resolved_by and notes unset.
C14_ResolvedInvariant ==
    \A r \in BagToSet(anomalyLogs) :
       /\ r.resolved_at # NULL <=> r.is_resolved
       /\ r.resolved_by # NULL <=> r.is_resolved
       /\ r.is_resolved = FALSE
       /\ r.resolved_at = NULL /\ r.resolved_by = NULL /\ r.notes = NULL

\* findings of all three types have been inserted, by two sweeps
C14_Witness ==
    /\ \A ty \in {"high_purchase", "auth_failure", "unusual_access"} :
          \E r \in BagToSet(anomalyLogs) : r.type = ty
    /\ Logged(2, "af") # {}

---------------------------------------------------------------------------
(* C15: what the engine writes *)

\* C15: no step of the engine changes orders, users or audit events; a step
\* leaves every finding of the table in it, unchanged, and adds at most one
\* finding, which it does only when a detector was in its logAnomaly call and
\* which is a row as the recorder writes it: the findings only grow.
C15_AppendOnly ==
    [][/\ data' = data
       /\ anomalyLogs \sqsubseteq anomalyLogs'
       /\ BagCardinality(anomalyLogs') <= BagCardinality(anomalyLogs) + 1
       /\ anomalyLogs' # anomalyLogs =>
             /\ \E s \in Sweeps, d \in Detectors : Pc(s, d) = "logAnomaly"
             /\ \E r \in BagToSet(anomalyLogs') :
                   /\ CopiesIn(r, anomalyLogs') = CopiesIn(r, anomalyLogs) + 1
                   /\ ~r.is_resolved]_vars

\* overlapping sweeps, one of them with a failure, have appended findings
\* and both are still at work
C15_Witness ==
    /\ faults > 0
    /\ sweep[1] = "running" /\ sweep[2] = "running"
    /\ Logged(1, "hv") # {} /\ Logged(2, "hv") # {}
    /\ BagCardinality(anomalyLogs) >= 2

---------------------------------------------------------------------------
(* C16: the recipients of an alert *)

\* the ids of the active users holding "admin", the role or "super_admin"
ActiveAdministrators(role) ==
    {u.id : u \in {x \in users : x.is_active /\ x.role \in {"admin", role, "super_admin"}}}

\* C16 as stated: the recipients resolved for an alert are exactly the active
\* users holding "admin", the detector's role or "super_admin"; a failed
\* lookup, which resolves nobody, refutes it.
C16_RecipientsExact ==
    \A s \in Sweeps, d \in Detectors :
       \A i \in Events(s, d, "admins") :
          trace[s][d][i].ids = ActiveAdministrators(RoleOf(d))

\* C16 amended: when the lookup succeeds the recipients resolved for an alert
\* are exactly the active users holding "admin", the detector's role
\* (purchase_admin for high-value purchases, security_admin otherwise) or
\* "super_admin"; when it fails there are none; in both cases no inactive
\* user and no user of another role is among them, and the alert is sent to
\* the recipients resolved.
C16_RecipientsWhenResolved ==
    \A s \in Sweeps, d \in Detectors :
       LET t == trace[s][d]
       IN  /\ \A i \in Events(s, d, "admins") :
                 /\ t[i].ids = IF t[i].ok THEN ActiveAdministrators(RoleOf(d)) ELSE {}
                 /\ \A u \in users : u.id \in t[i].ids =>
                        u.is_active /\ u.role \in {"admin", RoleOf(d), "super_admin"}
           /\ \A i \in Events(s, d, "send") :
                 t[i - 1].op = "admins" /\ t[i].to = t[i - 1].ids

\* in one sweep the purchase alert went to the purchase administrator and the
\* login alert to the security administrator, both also to the active "admin"
\* and "super_admin", while an inactive "admin" exists
C16_Witness ==
    /\ \E i \in Events(1, "hv", "send") : trace[1]["hv"][i].to = {"a1", "a4", "a5"}
    /\ \E i \in Events(1, "af", "send") : trace[1]["af"][i].to = {"a2", "a4", "a5"}
    /\ \E u \in users : ~u.is_active /\ u.role = "admin"

---------------------------------------------------------------------------
(* C17: the two windows of the unusual-access detector *)

\* the events of user u that the scan made at scanAt takes as recent and the
\* history query made at histAt takes as history
InBothWindows(u, scanAt, histAt) ==
    {e \in auditLogs : /\ e.user_id = u
                        /\ e.timestamp >= scanAt - Hours2
                        /\ e.timestamp >= histAt - Days30
                        /\ e.timestamp < histAt - Hours2}

\* C17: in a run of the unusual-access detector no audit event of a user is
\* both among the recent events of the scan and among the historical events
\* of that user's history query; this is the claim as stated, which the code
\* does not meet: each query reads the clock anew.
C17_WindowsDisjoint ==
    \A i \in Events(1, "ua", "eval") :
       InBothWindows(trace[1]["ua"][i].key, ScanAt(1, "ua"), trace[1]["ua"][i].at) = {}

---------------------------------------------------------------------------
(* C18: one candidate at a time *)

\* the candidates a detector still has in its loop, the current one first
QueueKeys(s, d) ==
    CASE d = "hv" -> [i \in 1..Len(hv[s].queue) |-> hv[s].queue[i].id]
      [] d = "af" -> [i \in 1..Len(af[s].queue) |-> afKey(af[s].queue[i])]
      [] OTHER -> ua[s].queue

\* the steps a detector takes for one candidate, in the order of the code
StepNo(op) ==
    CASE op \in {"eval", "flag"} -> 0
      [] op = "user" -> 1
      [] op = "admins" -> 2
      [] op = "send" -> 3
      [] OTHER -> 4

\* the last step for a candidate: the insert has returned, or the rule did
\* not flag it
IsLastStep(ev) == ev.op = "log" \/ (ev.op = "eval" /\ ~ev.flagged)

\* C18: in the history of a detector run the steps of one candidate are
\* contiguous and in the order evaluation, lookups, notification, recording;
\* the steps of another candidate begin only after the last step of the
\* one before; and no step has been taken for any candidate behind the
\* current one in the detector's queue, whose candidates are all distinct.
C18_Sequential ==
    \A s \in Sweeps, d \in Detectors :
       LET t == trace[s][d]
           steps == {i \in 1..Len(t) : t[i].op \notin {"scan", "error"}}
           q == QueueKeys(s, d)
       IN  /\ \A i, k \in steps : (i < k /\ t[i].key = t[k].key) =>
                 \A j \in i..k : j \in steps /\ t[j].key = t[i].key
           /\ \A i \in steps : (i + 1) \in steps =>
                 IF t[i + 1].key = t[i].key
                 THEN StepNo(t[i + 1].op) > StepNo(t[i].op)
                 ELSE IsLastStep(t[i]) /\ StepNo(t[i + 1].op) = 0
           /\ \A i, j \in 1..Len(q) : i < j => q[i] # q[j]
           /\ \A j \in 2..Len(q) : \A i \in steps : t[i].key # q[j]
           /\ \A i \in steps : ~IsLastStep(t[i]) /\ ~(\E k \in steps : k > i) /\ ~Stopped(s, d)
                 => Len(q) > 0 /\ q[1] = t[i].key

\* three groups of failed logins were each notified about and recorded, one
\* after the other
C18_Witness ==
    /\ af[1].pc = "done" /\ faults = 0
    /\ Cardinality(Sent(1, "af")) = 3 /\ Cardinality(Logged(1, "af")) = 3
    /\ Len(trace[1]["af"]) = 13

---------------------------------------------------------------------------
(* C19: every sweep completes *)

\* C19: when every awaited call settles, a sweep that has started eventually
\* completes, whatever failures it meets on its way.
C19_SweepTerminates ==
    \A s \in Sweeps : (sweep[s] = "running") ~> (sweep[s] = "done")

\* a sweep has completed although one of its detectors failed on a query and
\* the two others went through their candidates
C19_Witness ==
    /\ sweep[1] = "done"
    /\ Stopped(1, "af")
    /\ Logged(1, "hv") # {} /\ Logged(1, "ua") # {}

---------------------------------------------------------------------------
(* C20: the grouping key of failed logins *)

\* the groups the detector has taken up or still has in its queue
AuthGroups(s) ==
    Flagged(s, "af") \cup {afKey(af[s].queue[i]) : i \in 1..Len(af[s].queue)}

\* failed logins of the 30 minutes before at that came from the address
FailedFrom(ip, at) ==
    {e \in auditLogs : /\ e.ip_address = ip
                        /\ Contains(e.action, "login")
                        /\ e.response_status >= 400
                        /\ e.timestamp >= at - Min30}

\* C20: the failed logins of an address that carry no user id form one group:
\* the group (address, no user) is raised exactly if they number more than 5,
\* with all of them in its count; failures against different user ids are
\* counted apart, so that an address none of whose groups counts more than 5
\* raises nothing however many failures it has in all; and when the detector
\* has finished without any failure the findings are one per group over 5,
\* carrying the group's user id (or none) and count.
C20_GroupingKey ==
    LET t == trace[1]["af"]
        at == ScanAt(1, "af")
        ips == {e.ip_address : e \in auditLogs}
        anon(ip) == {e \in FailedFrom(ip, at) : e.user_id = NULL}
        of(ip, u) == {e \in FailedFrom(ip, at) : e.user_id = u}
    IN  (Events(1, "af", "scan") # {} /\ ~Stopped(1, "af")) =>
          /\ \A ip \in ips :
                /\ <<ip, NULL>> \in AuthGroups(1) <=> Cardinality(anon(ip)) > 5
                /\ (\A e \in FailedFrom(ip, at) : Cardinality(of(ip, e.user_id)) <= 5) =>
                      /\ \A k \in AuthGroups(1) : k[1] # ip
                      /\ Rows("auth_failure", LAMBDA r : r.details.ipAddress = ip) = 0
          /\ \A i \in Events(1, "af", "flag") :
                t[i].count = Cardinality(of(t[i].key[1], t[i].key[2]))
          /\ (af[1].pc = "done" /\ faults = 0) =>
                \A k \in AllKeys :
                   Rows("auth_failure",
                        LAMBDA r : /\ r.details.ipAddress = k[1] /\ r.user_id = k[2]
                                   /\ r.details.count = Cardinality(of(k[1], k[2])))
                      = IF Cardinality(of(k[1], k[2])) > 5 THEN 1 ELSE 0

\* one address with 6 failures without a user id and 3 + 3 failures against
\* two users: the only finding is the one without a user id
C20_Witness ==
    /\ af[1].pc = "done" /\ faults = 0 /\ Events(1, "af", "scan") # {}
    /\ FailedCount(<<"ip1", "u1">>, ScanAt(1, "af")) = 3
    /\ FailedCount(<<"ip1", "u2">>, ScanAt(1, "af")) = 3
    /\ FailedCount(<<"ip1", NULL>>, ScanAt(1, "af")) = 6
    /\ AuthFailureRows(<<"ip1", NULL>>) = 1
    /\ BagCardinality(anomalyLogs) = 1

---------------------------------------------------------------------------
(* C21: a flagged user without a user record *)

\* C21: when the lookup of a flagged user finds no record the detector goes
\* on to resolve the recipients for that user, nothing is taken for an
\* error, a successful insert leaves an unusual_access finding whose subject
\* is the user id as the audit events carry it (and whose username is unset),
\* and a detector that has finished without any failure has notified about
\* and recorded that user and has evaluated every other recent user.
C21_MissingUserRecord ==
    LET t == trace[1]["ua"]
    IN  \A i \in Events(1, "ua", "user") : ~t[i].found =>
           /\ IF i = Len(t)
              THEN ua[1].pc = "getAdministrators"
              ELSE t[i + 1].op = "admins" /\ t[i + 1].key = t[i].key
           /\ \A j \in Events(1, "ua", "log") : (t[j].key = t[i].key /\ t[j].ok) =>
                 /\ \E k \in Events(1, "ua", "send") : k < j /\ t[k].key = t[i].key
                 /\ Rows("unusual_access",
                         LAMBDA r : r.user_id = t[i].key /\ r.details.username = NULL) = 1
           /\ (ua[1].pc = "done" /\ Clean(1, "ua")) =>
                 /\ t[i].key \in Sent(1, "ua") /\ t[i].key \in Logged(1, "ua")
                 /\ \A u \in RecentUsers(ScanAt(1, "ua")) :
                       \E j \in Events(1, "ua", "eval") : t[j].key = u

\* a user without a record was flagged, notified about and recorded, and the
\* detector then went on to evaluate the next user
C21_Witness ==
    LET t == trace[1]["ua"]
    IN  \E i \in Events(1, "ua", "user") :
           /\ ~t[i].found
           /\ findUser(t[i].key) = <<>>
           /\ t[i].key \in Sent(1, "ua")
           /\ UnusualAccessRows(t[i].key) = 1
           /\ \E j \in Events(1, "ua", "eval") : j > i /\ t[j].key # t[i].key

---------------------------------------------------------------------------
(* C22: one notification and one finding per flagged candidate *)

\* the candidate satisfied the rule of detector d when sweep s evaluated it
SatisfiedRule(s, d, k) ==
    LET t == trace[s][d]
    IN  CASE d = "hv" ->
               \E i \in Events(s, d, "eval") :
                  /\ t[i].key = k
                  /\ OrderOf(k).status = "pending"
                  /\ OrderOf(k).created_at >= ScanAt(s, d) - Hour
                  /\ OverBaseline(OrderOf(k), t[i].at)
          [] d = "af" ->
               Events(s, d, "scan") # {} /\ FailedCount(k, ScanAt(s, d)) > 5
          [] OTHER ->
               \E i \in Events(s, d, "eval") :
                  t[i].key = k /\ UnusualAccess(k, ScanAt(s, d), t[i].at)

\* the calls of an operation a detector run has made for a candidate
CallsFor(s, d, op, k) == {i \in Events(s, d, op) : trace[s][d][i].key = k}

\* C22: without any failure, a detector that has finished has made exactly
\* one notification call and one insert for each candidate it flagged and
\* none for any other; once all detectors that were started have finished,
\* the table holds as many findings as candidates were flagged (orders,
\* groups and users together), one per flagged candidate and sweep whatever
\* the number of unusual resources and IPs; and a candidate has a finding
\* only if it satisfied its rule when a sweep evaluated it.  This is the
\* claim as stated; the code does not meet its last part because of the
\* empty-resource slip of C3.
C22_OneFindingPerFlag ==
    /\ \A s \in Sweeps, d \in Detectors : (Pc(s, d) = "done" /\ faults = 0) =>
          \A k \in Candidates(d) :
             /\ Cardinality(CallsFor(s, d, "send", k)) = IF k \in Flagged(s, d) THEN 1 ELSE 0
             /\ Cardinality(CallsFor(s, d, "log", k)) = IF k \in Flagged(s, d) THEN 1 ELSE 0
    /\ (faults = 0 /\ \A s \in Sweeps, d \in Detectors : Pc(s, d) \in {"idle", "done"}) =>
          /\ BagCardinality(anomalyLogs)
                = SumOf([p \in Sweeps \X Detectors |-> Cardinality(Flagged(p[1], p[2]))],
                        Sweeps \X Detectors)
          /\ \A d \in Detectors : \A k \in Candidates(d) :
                RowsOf(d, k) = Cardinality({s \in Sweeps : k \in Flagged(s, d)})
    /\ \A d \in Detectors : \A k \in Candidates(d) :
          RowsOf(d, k) > 0 => \E s \in Sweeps : SatisfiedRule(s, d, k)

====
